---- MODULE Spec2Model ----
(***************************************************************************)
(* Trader_Pad backend: the in-memory session table (auth.py), the          *)
(* authentication gate of the request handlers (main.py) and the audit     *)
(* logging of trade-entry updates and deletes inside one storage           *)
(* transaction (main.py, crud.py, database.py).                            *)
(*                                                                         *)
(* Strings are sequences of atoms.  The atom BEARER is the seven           *)
(* characters "Bearer ", the atom JUNK is any other text, and the atom i   *)
(* in 1..MaxTokens is the i-th value secrets.token_urlsafe(32) can return  *)
(* (43 url-safe characters, so no token contains "Bearer ").               *)
(***************************************************************************)
EXTENDS Integers, Sequences, FiniteSets, TLC

VARIABLES
    sessions,   \* auth.sessions: token -> session dict
    issued,     \* tokens generate_token has returned so far
    now,        \* datetime.now(), in hours
    users,      \* committed rows of table users: id -> row
    trades,     \* committed rows of table trader_entries: id -> row
    logs,       \* committed rows of table trader_entries_logs, in insertion order
    writer,     \* request holding the storage write lock (0: none)
    req,        \* the requests in flight that take several steps
    nextOp,     \* number of several-step requests started
    hist,       \* committed mutations of trader_entries by update/delete requests
    masters,    \* ids of the committed rows of one master table (strategy)
    resp        \* what the last single-step call answered

vars == <<sessions, issued, now, users, trades, logs, writer, req, nextOp, hist, masters, resp>>

----------------------------------------------------------------------------
\* Bounds of the model

MaxTokens == 2
MaxHeaderLen == 3
MaxTime == 36
MaxEntry == 1
MaxData == 2
MaxOps == 2
NumReq == 2
MaxMaster == 2
MaxCalls == 3
MaxLogs == 3

\* Hours the clock advances in one step
TickHours == 12

\* Program constants

SESSION_TIMEOUT_HOURS == 24
BEARER == 0
JUNK == MaxTokens + 1

Tokens == 1..MaxTokens
Atoms == {BEARER, JUNK} \cup Tokens
EntryIds == 1..MaxEntry
Data == 1..MaxData
ReqIds == 1..NumReq
MasterIds == 1..MaxMaster

\* A request header: absent (None) or a string
NoHeader == [present |-> FALSE, text |-> <<>>]
Hdr(s) == [present |-> TRUE, text |-> s]
Texts == UNION {[1..n -> Atoms] : n \in 0..MaxHeaderLen}
Headers == {NoHeader} \cup {Hdr(s) : s \in Texts}
Bearer(t) == Hdr(<<BEARER, t>>)

\* Optional[dict]
None == [found |-> FALSE]
Some(d) == [found |-> TRUE, val |-> d]

----------------------------------------------------------------------------
\* auth.py

RECURSIVE replace(_)
\* authorization.replace("Bearer ", ""): every occurrence is removed
replace(s) ==
    IF s = <<>> THEN <<>>
    ELSE IF Head(s) = BEARER THEN replace(Tail(s))
    ELSE <<Head(s)>> \o replace(Tail(s))

\* authorization.startswith("Bearer ")
startswith(s) == Len(s) > 0 /\ Head(s) = BEARER

\* The session key a string denotes: a string that is exactly one token
IsToken(s) == Len(s) = 1 /\ s[1] \in Tokens

\* A lookup that compares the session's age with the timeout
get_session_expiring(s) ==
    IF /\ IsToken(s)
       /\ s[1] \in DOMAIN sessions
       /\ now - sessions[s[1]].created_at <= SESSION_TIMEOUT_HOURS
    THEN Some(sessions[s[1]])
    ELSE None

get_session(s) ==
    IF IsToken(s) /\ s[1] \in DOMAIN sessions THEN Some(sessions[s[1]]) ELSE None

HTTPException(code, detail) == [status |-> code, detail |-> detail, session |-> None]
Passed(session) == [status |-> 200, detail |-> "", session |-> session]

\* A verify_token that looks the header up as it is, prefix included
verify_token_keeping_prefix(authorization) ==
    IF ~authorization.present \/ authorization.text = <<>>
    THEN HTTPException(401, "Authentication required")
    ELSE IF ~startswith(authorization.text)
    THEN HTTPException(401, "Invalid authorization header format")
    ELSE LET session == get_session(authorization.text)
         IN IF ~session.found
            THEN HTTPException(401, "Invalid or expired session")
            ELSE Passed(session)

verify_token(authorization) ==
    IF ~authorization.present \/ authorization.text = <<>>
    THEN HTTPException(401, "Authentication required")
    ELSE IF ~startswith(authorization.text)
    THEN HTTPException(401, "Invalid authorization header format")
    ELSE LET session == get_session(replace(authorization.text))
         IN IF ~session.found
            THEN HTTPException(401, "Invalid or expired session")
            ELSE Passed(session)

\* A gate that lets every authenticated session through
verify_admin_any_role(authorization) == verify_token(authorization)

verify_admin(authorization) ==
    LET r == verify_token(authorization)
    IN IF r.status # 200 THEN r
       ELSE IF r.session.val.role # "admin"
       THEN HTTPException(403, "Admin access required")
       ELSE r

Session(user_id, username, role, created_at) ==
    [user_id |-> user_id, username |-> username, role |-> role, created_at |-> created_at]

\* secrets.token_urlsafe(32): 256 random bits, taken never to repeat a value
generate_token == Tokens \ issued

\* A create_session that stores the default role
create_session_default_role(token, user_id, username, role) ==
    [t \in DOMAIN sessions \cup {token} |->
        IF t = token THEN Session(user_id, username, "user", now) ELSE sessions[t]]

\* sessions[token] = {...}: the table after create_session stored under token
create_session(token, user_id, username, role) ==
    [t \in DOMAIN sessions \cup {token} |->
        IF t = token THEN Session(user_id, username, role, now) ELSE sessions[t]]

\* A delete_session that empties the table when it finds the token
delete_session_clearing_table(s) ==
    IF IsToken(s) /\ s[1] \in DOMAIN sessions
    THEN [sessions |-> << >>, result |-> TRUE]
    ELSE [sessions |-> sessions, result |-> FALSE]

\* delete_session(token): the table afterwards and the value returned
delete_session(s) ==
    IF IsToken(s) /\ s[1] \in DOMAIN sessions
    THEN [sessions |-> [t \in DOMAIN sessions \ {s[1]} |-> sessions[t]], result |-> TRUE]
    ELSE [sessions |-> sessions, result |-> FALSE]

\* delete_user_sessions(username)
delete_user_sessions_first_only(username) ==
    LET tokens_to_delete == {t \in DOMAIN sessions : sessions[t].username = username}
        first == IF tokens_to_delete = {} THEN {}
                 ELSE {CHOOSE t \in tokens_to_delete : \A u \in tokens_to_delete : t <= u}
    IN [ sessions |-> [t \in DOMAIN sessions \ first |-> sessions[t]],
         result |-> Cardinality(tokens_to_delete) ]

delete_user_sessions(username) ==
    LET tokens_to_delete == {t \in DOMAIN sessions : sessions[t].username = username}
    IN [ sessions |-> [t \in DOMAIN sessions \ tokens_to_delete |-> sessions[t]],
         result |-> Cardinality(tokens_to_delete) ]

cleanup_old_sessions_at_timeout ==
    LET tokens_to_delete ==
            {t \in DOMAIN sessions : now - sessions[t].created_at >= SESSION_TIMEOUT_HOURS}
    IN [ sessions |-> [t \in DOMAIN sessions \ tokens_to_delete |-> sessions[t]],
         result |-> Cardinality(tokens_to_delete) ]

\* cleanup_old_sessions()
cleanup_old_sessions ==
    LET tokens_to_delete ==
            {t \in DOMAIN sessions : now - sessions[t].created_at > SESSION_TIMEOUT_HOURS}
    IN [ sessions |-> [t \in DOMAIN sessions \ tokens_to_delete |-> sessions[t]],
         result |-> Cardinality(tokens_to_delete) ]

----------------------------------------------------------------------------
\* main.py: the handlers that ask for a session, and how each one is guarded

\* Handlers that call auth.verify_token
TokenHandlers ==
    { "create_trade_entry", "upload_trade_entries_csv", "get_trade_entries_by_date",
      "update_trade_entry", "delete_trade_entry", "logout" }

\* get_all_trade_entries calls auth.verify_token and then tests the role itself
RoleHandlers == { "get_all_trade_entries" }

\* Handlers that call auth.verify_admin
AdminHandlers ==
    { "get_all_users", "create_user", "reset_user_password", "delete_user",
      "update_user_permissions", "get_database_config", "update_database_config",
      "test_database_connection", "test_new_database_config",
      "download_logs", "get_logs_count" }

ProtectedHandlers == TokenHandlers \cup RoleHandlers \cup AdminHandlers

\* Handlers whose try block has `except HTTPException: raise` before
\* `except Exception`; the others turn every exception into a 500
Reraises(handler) == handler \notin {"create_trade_entry", "get_trade_entries_by_date"}

\* The session check a handler starts with
Check(handler, authorization) ==
    IF handler \in AdminHandlers THEN verify_admin(authorization)
    ELSE LET r == verify_token(authorization)
         IN IF handler \in RoleHandlers /\ r.status = 200 /\ r.session.val.role # "admin"
            THEN HTTPException(403, "Only admins can view all trade entries")
            ELSE r

\* What the handler answers when its session check raises (status 200: the
\* check passed and the handler's body runs)
Gate(handler, authorization) ==
    LET r == Check(handler, authorization)
    IN IF r.status = 200 \/ Reraises(handler) THEN r
       ELSE HTTPException(500, "Error")

Response(op, authorization, r) ==
    [ op |-> op, authorization |-> authorization, status |-> r.status,
      detail |-> r.detail, session |-> r.session, token |-> 0,
      args |-> <<>>, result |-> <<>> ]

----------------------------------------------------------------------------
\* Storage: crud.py, database.py

Usernames == {"admin", "alice"}

\* dict(row) of trader_entries; data stands for the twenty business columns,
\* which crud.update_trade_entry assigns together from the request body
TradeRow(id, username, data) == [id |-> id, username |-> username, data |-> data]

\* crud.get_trade_entry_by_id on a table seen by a connection
get_trade_entry_by_id(table, entry_id) ==
    IF entry_id \in DOMAIN table THEN Some(table[entry_id]) ELSE None

\* One row of trader_entries_logs.  op is the number of the request that wrote
\* it (kept for stating the properties; no column of the table).
create_log_entry(op, entry_id, operation_type, log_tag, entry_data, changed_by) ==
    [ op |-> op,
      entry_id |-> entry_id,
      operation_type |-> operation_type,
      log_tag |-> log_tag,
      username |-> entry_data.username,
      data |-> entry_data.data,
      changed_by |-> changed_by,
      changed_at |-> now ]

\* The uncommitted write of a connection to trader_entries
NoWrite == [kind |-> "none"]
PutRow(row) == [kind |-> "put", row |-> row]
DelRow(id) == [kind |-> "del", id |-> id]

\* The table trader_entries with a connection's own write applied
ApplyWrite(table, w) ==
    IF w.kind = "put" THEN
        [i \in DOMAIN table \cup {w.row.id} |-> IF i = w.row.id THEN w.row ELSE table[i]]
    ELSE IF w.kind = "del" THEN [i \in DOMAIN table \ {w.id} |-> table[i]]
    ELSE table

\* A request slot that handles nothing
Idle ==
    [ pc |-> "idle", kind |-> "", op |-> 0, username |-> "", entry_id |-> 0,
      entry |-> 0, old_entry |-> None, updated_entry |-> None,
      txLogs |-> <<>>, txWrite |-> NoWrite, status |-> 0, failed |-> "",
      password |-> "", token |-> 0,
      key |-> <<>>, at |-> 0, size |-> 0, seen |-> {}, todo |-> {}, count |-> 0,
      snap |-> {}, result |-> <<>> ]

\* What a connection sees: committed rows plus its own uncommitted write
TxView(q) == ApplyWrite(trades, q.txWrite)

\* The record of a committed mutation by request q
Mutation(q) ==
    [ op |-> q.op, kind |-> q.kind, entry_id |-> q.entry_id, by |-> q.username,
      old |-> get_trade_entry_by_id(trades, q.entry_id),
      new |-> get_trade_entry_by_id(TxView(q), q.entry_id) ]

\* A commit that stores the connection's log entries in place of the table's
commit_overwriting_logs(r) ==
    /\ trades' = TxView(req[r])
    /\ logs' = req[r].txLogs
    /\ hist' = IF req[r].txWrite.kind = "none" THEN hist ELSE hist \cup {Mutation(req[r])}
    /\ writer' = IF writer = r THEN 0 ELSE writer

\* conn.commit(): the connection's writes become the committed state, at once
commit(r) ==
    /\ trades' = TxView(req[r])
    /\ logs' = logs \o req[r].txLogs
    /\ hist' = IF req[r].txWrite.kind = "none" THEN hist ELSE hist \cup {Mutation(req[r])}
    /\ writer' = IF writer = r THEN 0 ELSE writer

\* A get_db that leaves the snapshots written so far in place on an exception
rollback_keeping_logs(r) ==
    /\ logs' = logs \o req[r].txLogs
    /\ UNCHANGED <<trades, hist>>
    /\ writer' = IF writer = r THEN 0 ELSE writer

\* A get_db that leaves the row written so far in place on an exception
rollback_keeping_row(r) ==
    /\ trades' = TxView(req[r])
    /\ UNCHANGED <<logs, hist>>
    /\ writer' = IF writer = r THEN 0 ELSE writer

\* get_db on an exception: conn.rollback() discards the connection's writes
rollback(r) ==
    /\ UNCHANGED <<trades, logs, hist>>
    /\ writer' = IF writer = r THEN 0 ELSE writer

\* The slot of a request that has answered: what it was and what it answered
Done(q, code, at) ==
    [Idle EXCEPT !.pc = "done", !.kind = q.kind, !.op = q.op, !.username = q.username,
                 !.entry_id = q.entry_id, !.status = code, !.failed = at]

\* The handler ends with an HTTPException raised inside `with get_db()`
Raise(r, code, at) ==
    /\ rollback(r)
    /\ req' = [req EXCEPT ![r] = Done(req[r], code, at)]

----------------------------------------------------------------------------
\* main.py: update_trade_entry and delete_trade_entry, one statement a step.
\* Each request runs in its own thread with its own connection.  A connection
\* reads the committed state until its first INSERT/UPDATE/DELETE opens its
\* transaction, which takes the storage write lock until commit or rollback.

authUnchanged == UNCHANGED <<sessions, issued, users, masters>>

HandlerOf(kind) == IF kind = "UPDATE" THEN "update_trade_entry" ELSE "delete_trade_entry"

\* auth.verify_token(authorization); username = session["username"]
Begin(r, kind, authorization, entry_id, entry) ==
    /\ req[r].pc \in {"idle", "done"}
    /\ nextOp < MaxOps
    /\ nextOp' = nextOp + 1
    /\ LET a == Gate(HandlerOf(kind), authorization)
           q == [Idle EXCEPT !.kind = kind, !.op = nextOp + 1,
                             !.entry_id = entry_id, !.entry = entry]
       IN req' = [req EXCEPT ![r] =
                    IF a.status # 200
                    THEN Done(q, a.status, "auth")
                    ELSE [q EXCEPT !.pc = "read", !.username = a.session.val.username]]
    /\ UNCHANGED <<now, trades, logs, writer, hist, resp>>
    /\ authUnchanged

\* old_entry = crud.get_trade_entry_by_id(conn, entry_id); 404 when absent
Read(r) ==
    /\ req[r].pc = "read"
    /\ LET old == get_trade_entry_by_id(TxView(req[r]), req[r].entry_id)
       IN IF ~old.found
          THEN Raise(r, 404, "read")
          ELSE /\ req' = [req EXCEPT ![r] = [@ EXCEPT !.pc = "log_first", !.old_entry = old]]
               /\ UNCHANGED <<trades, logs, writer, hist>>
    /\ UNCHANGED <<now, nextOp, resp>>
    /\ authUnchanged

\* A handler that tags the snapshot taken before an update as 'after'
FirstSnapshot_tagged_after(q) ==
    IF q.kind = "UPDATE"
    THEN create_log_entry(q.op, q.entry_id, "UPDATE", "after", q.old_entry.val, q.username)
    ELSE create_log_entry(q.op, q.entry_id, "DELETE", "deleted", q.old_entry.val, q.username)

\* The snapshot the handler writes before the mutation
FirstSnapshot(q) ==
    IF q.kind = "UPDATE"
    THEN create_log_entry(q.op, q.entry_id, "UPDATE", "before", q.old_entry.val, q.username)
    ELSE create_log_entry(q.op, q.entry_id, "DELETE", "deleted", q.old_entry.val, q.username)

\* crud.create_log_entry(... 'before' | 'deleted' ...): the connection's first
\* write, which waits for the write lock
LogFirst(r) ==
    /\ req[r].pc = "log_first"
    /\ writer = 0
    /\ writer' = r
    /\ req' = [req EXCEPT ![r] = [@ EXCEPT !.pc = "mutate",
                                           !.txLogs = Append(@, FirstSnapshot(req[r]))]]
    /\ UNCHANGED <<now, trades, logs, nextOp, hist, resp>>
    /\ authUnchanged

\* A delete that marks the row instead of removing it
RowWrite_keeping_row(q) ==
    IF q.kind = "UPDATE"
    THEN PutRow(TradeRow(q.entry_id, q.username, q.entry))
    ELSE PutRow(q.old_entry.val)

\* The write of crud.update_trade_entry / crud.delete_trade_entry
RowWrite(q) ==
    IF q.kind = "UPDATE"
    THEN PutRow(TradeRow(q.entry_id, q.username, q.entry))
    ELSE DelRow(q.entry_id)

\* A handler that does not look at the row count of the UPDATE or DELETE
Mutate_ignoring_rowcount(r) ==
    /\ req[r].pc = "mutate"
    /\ req' = [req EXCEPT ![r] =
                 [@ EXCEPT !.pc = IF req[r].kind = "UPDATE" THEN "reread" ELSE "commit",
                           !.txWrite = IF req[r].entry_id \in DOMAIN TxView(req[r])
                                       THEN RowWrite(req[r]) ELSE @]]
    /\ UNCHANGED <<trades, logs, writer, hist>>
    /\ UNCHANGED <<now, nextOp, resp>>
    /\ authUnchanged

\* success = crud.update_trade_entry(...) | crud.delete_trade_entry(...):
\* cursor.rowcount > 0; 404 when no row matched
Mutate(r) ==
    /\ req[r].pc = "mutate"
    /\ IF req[r].entry_id \notin DOMAIN TxView(req[r])
       THEN Raise(r, 404, "mutate")
       ELSE /\ req' = [req EXCEPT ![r] =
                        [@ EXCEPT !.pc = IF req[r].kind = "UPDATE" THEN "reread" ELSE "commit",
                                  !.txWrite = RowWrite(req[r])]]
            /\ UNCHANGED <<trades, logs, writer, hist>>
    /\ UNCHANGED <<now, nextOp, resp>>
    /\ authUnchanged

\* updated_entry = crud.get_trade_entry_by_id(conn, entry_id)
Reread(r) ==
    /\ req[r].pc = "reread"
    /\ req' = [req EXCEPT ![r] =
                 [@ EXCEPT !.pc = "log_after",
                           !.updated_entry = get_trade_entry_by_id(TxView(req[r]), req[r].entry_id)]]
    /\ UNCHANGED <<now, trades, logs, writer, nextOp, hist, resp>>
    /\ authUnchanged

\* crud.create_log_entry(... 'UPDATE', 'after', updated_entry ...)
LogAfter(r) ==
    /\ req[r].pc = "log_after"
    /\ req' = [req EXCEPT ![r] =
                 [@ EXCEPT !.pc = "commit",
                           !.txLogs = Append(@, create_log_entry(req[r].op, req[r].entry_id,
                                "UPDATE", "after", req[r].updated_entry.val, req[r].username))]]
    /\ UNCHANGED <<now, trades, logs, writer, nextOp, hist, resp>>
    /\ authUnchanged

\* conn.commit(); return: the response is 200
Commit(r) ==
    /\ req[r].pc = "commit"
    /\ commit(r)
    /\ req' = [req EXCEPT ![r] = Done(req[r], 200, "")]
    /\ UNCHANGED <<now, nextOp, resp>>
    /\ authUnchanged

\* A storage call raises (an I/O error, "database is locked" after the busy
\* timeout): `except Exception` answers 500 and get_db rolls back
StorageSteps == {"read", "log_first", "mutate", "reread", "log_after", "commit"}

\* failed is "locked" when it is the connection's first write that raises
\* while another connection holds the write lock
StorageFailure(r) ==
    /\ req[r].pc \in StorageSteps
    /\ Raise(r, 500, IF req[r].pc = "log_first" /\ writer \notin {0, r}
                     THEN "locked" ELSE req[r].pc)
    /\ UNCHANGED <<now, nextOp, resp>>
    /\ authUnchanged

\* The clock advances
Tick ==
    /\ now + TickHours <= MaxTime
    /\ now' = now + TickHours
    /\ UNCHANGED <<sessions, issued, users, trades, logs, writer, req, nextOp, hist, masters, resp>>

\* main.py create_trade_entry, whole: the session check, then INSERT and commit
NewIds == {e \in EntryIds : \A i \in DOMAIN trades : i < e}

create_trade_entry(authorization, entry, id, fails) ==
    LET a == Gate("create_trade_entry", authorization)
    IN IF a.status # 200
       THEN /\ resp' = Response("create_trade_entry", authorization, a)
            /\ UNCHANGED trades
       ELSE IF fails
       THEN /\ resp' = Response("create_trade_entry", authorization, HTTPException(500, "Error"))
            /\ UNCHANGED trades
       ELSE /\ writer = 0
            /\ id \in NewIds
            /\ trades' = ApplyWrite(trades, PutRow(TradeRow(id, a.session.val.username, entry)))
            /\ resp' = Response("create_trade_entry", authorization,
                                [status |-> 201, detail |-> "", session |-> a.session])

CreateTrade(H) ==
    /\ \E authorization \in H, entry \in Data, id \in EntryIds, fails \in BOOLEAN :
          create_trade_entry(authorization, entry, id, fails)
    /\ UNCHANGED <<now, logs, writer, req, nextOp, hist>>
    /\ authUnchanged

\* The trade_date column of a row: one of the business columns, so that rows
\* with other data have another date
trade_date(row) == row.data

\* SELECT ... ORDER BY created_at DESC over the ids in S; ids are given in
\* the order of creation
RECURSIVE NewestFirst(_, _)
NewestFirst(table, S) ==
    IF S = {} THEN <<>>
    ELSE LET i == CHOOSE i \in S : \A j \in S : j <= i
         IN <<table[i]>> \o NewestFirst(table, S \ {i})

\* main.py get_trade_entries_by_date: crud.get_trade_entries_by_date for an
\* admin, crud.get_trade_entries_by_date_and_username for the others.  The
\* answer's result holds the entries.
get_trade_entries_by_date(authorization, date) ==
    LET a == Gate("get_trade_entries_by_date", authorization)
        entries ==
            IF a.status # 200 THEN <<>>
            ELSE IF a.session.val.role = "admin"
            THEN NewestFirst(trades, {i \in DOMAIN trades : trade_date(trades[i]) = date})
            ELSE NewestFirst(trades, {i \in DOMAIN trades :
                                        /\ trade_date(trades[i]) = date
                                        /\ trades[i].username = a.session.val.username})
    IN [Response("get_trade_entries_by_date", authorization, a) EXCEPT
           !.args = <<date>>, !.result = entries]

----------------------------------------------------------------------------
\* The audit trail: two sessions are logged in (alice, a user, holds token 1
\* and admin holds token 2) and requests create, update and delete trade
\* entries concurrently.

NoResponse == Response("", NoHeader, [status |-> 0, detail |-> "", session |-> None])

UserRow(id, username, password, role) ==
    [id |-> id, username |-> username, password |-> password, role |-> role]

InitUsers == (1 :> UserRow(1, "admin", "secret", "admin")) @@ (2 :> UserRow(2, "alice", "pw", "user"))

\* The tables trader_entries can hold when the requests arrive
Tables ==
    UNION {[S -> [id : EntryIds, username : Usernames, data : Data]] : S \in SUBSET EntryIds}
InitTables == {t \in Tables : \A i \in DOMAIN t : t[i].id = i}

InitAudit ==
    /\ sessions = (1 :> Session(2, "alice", "user", 0)) @@ (2 :> Session(1, "admin", "admin", 0))
    /\ issued = {1, 2}
    /\ now = SESSION_TIMEOUT_HOURS
    /\ users = InitUsers
    /\ trades \in InitTables
    /\ logs = << >>
    /\ writer = 0
    /\ req = [r \in ReqIds |-> Idle]
    /\ nextOp = 0
    /\ hist = {}
    /\ masters = {}
    /\ resp = NoResponse

\* The headers of the requests: none, no Bearer scheme, an unknown token, and
\* the tokens of the two sessions
AuditHeaders == {NoHeader, Hdr(<<JUNK>>), Bearer(JUNK)} \cup {Bearer(t) : t \in Tokens}

NextAudit ==
    \/ \E r \in ReqIds, kind \in {"UPDATE", "DELETE"}, authorization \in AuditHeaders,
          entry_id \in EntryIds, entry \in Data :
            Begin(r, kind, authorization, entry_id, entry)
    \/ \E r \in ReqIds : Read(r)
    \/ \E r \in ReqIds : LogFirst(r)
    \/ \E r \in ReqIds : Mutate(r)
    \/ \E r \in ReqIds : Reread(r)
    \/ \E r \in ReqIds : LogAfter(r)
    \/ \E r \in ReqIds : Commit(r)
    \/ \E r \in ReqIds : StorageFailure(r)
    \/ Tick

SpecAudit == InitAudit /\ [][NextAudit]_vars

\* The same requests, with trade entries being created by the sessions meanwhile
NextStore ==
    \/ NextAudit
    \/ CreateTrade({Bearer(t) : t \in Tokens})

SpecStore == InitAudit /\ [][NextStore]_vars

----------------------------------------------------------------------------
\* The session table: logins, logouts, account deletions, the sweep and the
\* calls of the protected handlers, each call a single step.

storageUnchanged == UNCHANGED <<logs, writer, req, nextOp, hist, masters>>

\* The spelling of a string in lower case
lower(s) == IF s = "ALICE" THEN "alice" ELSE IF s = "PW" THEN "pw" ELSE s

\* A lookup under a collation that ignores case
get_user_by_username_nocase(username) ==
    LET ids == {i \in DOMAIN users : lower(users[i].username) = lower(username)}
    IN IF ids = {} THEN None ELSE Some(users[CHOOSE i \in ids : TRUE])

\* crud.get_user_by_username: WHERE username = ?, under the default (binary)
\* collation of the default sqlite storage
get_user_by_username(username) ==
    LET ids == {i \in DOMAIN users : users[i].username = username}
    IN IF ids = {} THEN None ELSE Some(users[CHOOSE i \in ids : TRUE])

\* crud.get_user_by_id
get_user_by_id(user_id) ==
    IF user_id \in DOMAIN users THEN Some(users[user_id]) ELSE None

Passwords == {"secret", "pw"}

\* The credentials login is called with: the stored ones, an unknown
\* username, and a username and a password that differ from stored ones in case
LoginUsernames == Usernames \cup {"nobody", "ALICE"}
LoginPasswords == Passwords \cup {"PW"}
LoginFailures == {"none", "update_last_login", "commit"}

\* main.py login.  fails names the storage call that raises, if one does;
\* a failing conn.commit() of get_db raises after create_session has run.
login(username, password, fails) ==
    LET user == get_user_by_username(username)
    IN IF ~user.found \/ user.val.password # password
       THEN /\ resp' = Response("login", NoHeader, HTTPException(401, "Invalid username or password"))
            /\ UNCHANGED <<sessions, issued>>
       ELSE IF fails = "update_last_login"
       THEN /\ resp' = Response("login", NoHeader, HTTPException(500, "Error"))
            /\ UNCHANGED <<sessions, issued>>
       ELSE \E token \in generate_token :
            /\ issued' = issued \cup {token}
            /\ sessions' = create_session(token, user.val.id, user.val.username, user.val.role)
            /\ resp' = IF fails = "commit"
                       THEN Response("login", NoHeader, HTTPException(500, "Error"))
                       ELSE [Response("login", NoHeader, Passed(Some(sessions'[token])))
                                EXCEPT !.token = token]

Login ==
    /\ \E username \in LoginUsernames, password \in LoginPasswords,
          fails \in LoginFailures :
            login(username, password, fails)
    /\ UNCHANGED <<now, users, trades>>
    /\ storageUnchanged

\* main.py logout
logout(authorization) ==
    LET a == Gate("logout", authorization)
    IN /\ resp' = Response("logout", authorization,
                           IF a.status # 200 THEN a ELSE Passed(None))
       /\ sessions' = IF a.status # 200 THEN sessions
                      ELSE delete_session(replace(authorization.text)).sessions

DeleteUserFailures == {"none", "storage"}

\* main.py delete_user.  A storage call that raises after
\* auth.delete_user_sessions leaves the sessions deleted and the row in place.
delete_user(authorization, user_id, fails) ==
    LET a == Gate("delete_user", authorization)
        user == get_user_by_id(user_id)
        answer(r) == resp' = Response("delete_user", authorization, r)
    IN IF a.status # 200 THEN answer(a) /\ UNCHANGED <<sessions, users>>
       ELSE IF ~user.found
       THEN answer(HTTPException(404, "User not found")) /\ UNCHANGED <<sessions, users>>
       ELSE IF user.val.role = "admin"
       THEN answer(HTTPException(400, "Cannot delete admin user")) /\ UNCHANGED <<sessions, users>>
       ELSE /\ sessions' = delete_user_sessions(user.val.username).sessions
            /\ IF fails # "none"
               THEN answer(HTTPException(500, "Error")) /\ UNCHANGED users
               ELSE /\ answer(Passed(None))
                    /\ users' = [i \in DOMAIN users \ {user_id} |-> users[i]]


\* The headers the calls are made with: none, empty, no Bearer scheme, a bare
\* token, an unknown token, each token, and a token after a doubled scheme
CallHeaders ==
    {NoHeader, Hdr(<<>>), Hdr(<<JUNK>>), Hdr(<<1>>), Bearer(JUNK), Hdr(<<BEARER, BEARER, 1>>)}
        \cup {Bearer(t) : t \in Tokens}

Logout ==
    /\ \E authorization \in CallHeaders : logout(authorization)
    /\ UNCHANGED <<issued, now, users, trades>>
    /\ storageUnchanged

DeleteUser ==
    /\ \E authorization \in CallHeaders, user_id \in DOMAIN InitUsers,
          fails \in DeleteUserFailures :
            delete_user(authorization, user_id, fails)
    /\ UNCHANGED <<issued, now, trades>>
    /\ storageUnchanged

\* An operator runs auth.cleanup_old_sessions(); nothing in the program calls it
Cleanup ==
    /\ sessions' = cleanup_old_sessions.sessions
    /\ resp' = [Response("cleanup_old_sessions", NoHeader, Passed(None))
                    EXCEPT !.token = cleanup_old_sessions.result]
    /\ UNCHANGED <<issued, now, users, trades>>
    /\ storageUnchanged

\* auth.verify_token and auth.verify_admin, called on a header
Authenticate ==
    /\ \E authorization \in CallHeaders :
          resp' = Response("verify_token", authorization, verify_token(authorization))
    /\ UNCHANGED <<sessions, issued, now, users, trades>>
    /\ storageUnchanged

Authorize ==
    /\ \E authorization \in CallHeaders :
          resp' = Response("verify_admin", authorization, verify_admin(authorization))
    /\ UNCHANGED <<sessions, issued, now, users, trades>>
    /\ storageUnchanged

\* main.py validate_session: verify_token, and valid = false in place of its
\* HTTPException.  The answer's session field is the body: found is `valid`,
\* val holds username and role.
validate_session(authorization) ==
    Passed(verify_token(authorization).session)

\* main.py get_session_info: its own header test, auth.get_session, then the
\* permissions query; fails: that query raises, and `except Exception`
\* answers valid = false.
get_session_info(authorization, fails) ==
    IF ~authorization.present \/ authorization.text = <<>> \/ ~startswith(authorization.text)
    THEN Passed(None)
    ELSE LET session == get_session(replace(authorization.text))
         IN IF ~session.found \/ fails THEN Passed(None) ELSE Passed(session)

ValidateSession ==
    /\ \E authorization \in CallHeaders :
          resp' = Response("validate_session", authorization, validate_session(authorization))
    /\ UNCHANGED <<sessions, issued, now, users, trades>>
    /\ storageUnchanged

GetSessionInfo ==
    /\ \E authorization \in CallHeaders, fails \in BOOLEAN :
          resp' = Response("get_session_info", authorization,
                           get_session_info(authorization, fails))
    /\ UNCHANGED <<sessions, issued, now, users, trades>>
    /\ storageUnchanged

\* The handlers whose bodies touch nothing the model holds, or hold rows the
\* model leaves out: of these the session check is followed
CheckedHandlers ==
    ProtectedHandlers \ {"create_trade_entry", "update_trade_entry", "delete_trade_entry",
                         "logout", "delete_user"}

Call ==
    /\ \E handler \in CheckedHandlers, authorization \in CallHeaders :
          resp' = Response(handler, authorization, Gate(handler, authorization))
    /\ UNCHANGED <<sessions, issued, now, users, trades>>
    /\ storageUnchanged

InitAuth ==
    /\ sessions = << >>
    /\ issued = {}
    /\ now = 0
    /\ users = InitUsers
    /\ trades = << >>
    /\ logs = << >>
    /\ writer = 0
    /\ req = [r \in ReqIds |-> Idle]
    /\ nextOp = 0
    /\ hist = {}
    /\ masters = {}
    /\ resp = NoResponse

NextAuth ==
    \/ Login
    \/ Logout
    \/ DeleteUser
    \/ Cleanup
    \/ Authenticate
    \/ Authorize
    \/ ValidateSession
    \/ GetSessionInfo
    \/ Tick

SpecAuth == InitAuth /\ [][NextAuth]_vars

----------------------------------------------------------------------------
\* The session checks of the handlers: alice and admin are logged in, the
\* protected handlers are called with every kind of header, and sessions are
\* revoked by logout.

InitGate ==
    /\ sessions = (1 :> Session(2, "alice", "user", 0)) @@ (2 :> Session(1, "admin", "admin", 0))
    /\ issued = {1, 2}
    /\ now = 0
    /\ users = InitUsers
    /\ trades = << >>
    /\ logs = << >>
    /\ writer = 0
    /\ req = [r \in ReqIds |-> Idle]
    /\ nextOp = 0
    /\ hist = {}
    /\ masters = {}
    /\ resp = NoResponse

NextGate ==
    \/ Call
    \/ CreateTrade(CallHeaders)
    \/ Logout
    \/ DeleteUser

SpecGate == InitGate /\ [][NextGate]_vars

----------------------------------------------------------------------------
\* main.py: the master-value handlers.  They take a category and a value and
\* declare no authorization parameter: whatever header the request carries is
\* not read.  fails: the storage call raises (constraint, lock).

create_master_value(authorization, id, fails) ==
    IF fails
    THEN /\ resp' = Response("create_master_value", authorization, HTTPException(500, "Error"))
         /\ UNCHANGED masters
    ELSE /\ id \notin masters
         /\ masters' = masters \cup {id}
         /\ resp' = Response("create_master_value", authorization,
                             [status |-> 201, detail |-> "", session |-> None])

delete_master_value_with_cascade(authorization, id, fails) ==
    LET answer(r) == resp' = Response("delete_master_value_with_cascade", authorization, r)
    IN IF id \notin masters
       THEN answer(HTTPException(404, "not found")) /\ UNCHANGED masters
       ELSE IF fails
       THEN answer(HTTPException(500, "Error")) /\ UNCHANGED masters
       ELSE answer(Passed(None)) /\ masters' = masters \ {id}

mastersFrame == UNCHANGED <<sessions, issued, now, users, trades, logs, writer, req, nextOp, hist>>

CreateMasterValue ==
    /\ \E authorization \in CallHeaders, id \in MasterIds, fails \in BOOLEAN :
          create_master_value(authorization, id, fails)
    /\ mastersFrame

DeleteMasterValueWithCascade ==
    /\ \E authorization \in CallHeaders, id \in MasterIds, fails \in BOOLEAN :
          delete_master_value_with_cascade(authorization, id, fails)
    /\ mastersFrame

\* The requests that change stored rows in one step each: creating trade
\* entries, deleting accounts, creating and deleting master values
NextMasters ==
    \/ CreateMasterValue
    \/ DeleteMasterValueWithCascade
    \/ CreateTrade(CallHeaders)
    \/ DeleteUser

SpecMasters == InitGate /\ [][NextMasters]_vars

----------------------------------------------------------------------------
\* main.py: login and delete_user, one statement a step, as concurrent
\* requests.  The session table is process memory, changed at once by
\* create_session and delete_user_sessions; the users row is deleted by the
\* deleting connection's commit.  update_last_login and crud.delete_user are
\* the statements that take the storage write lock.

raceFrame == UNCHANGED <<now, masters, resp>>

\* A login request arrives
LoginBegin(r, username, password) ==
    /\ req[r].pc \in {"idle", "done"}
    /\ nextOp < MaxOps
    /\ nextOp' = nextOp + 1
    /\ req' = [req EXCEPT ![r] =
                 [Idle EXCEPT !.pc = "login_read", !.kind = "LOGIN", !.op = nextOp + 1,
                              !.username = username, !.password = password]]
    /\ UNCHANGED <<sessions, issued, users, trades, logs, writer, hist>>
    /\ raceFrame

\* user = crud.get_user_by_username(...); 401 unless the password is the stored one
LoginRead(r) ==
    /\ req[r].pc = "login_read"
    /\ LET user == get_user_by_username(req[r].username)
       IN IF ~user.found \/ user.val.password # req[r].password
          THEN Raise(r, 401, "login_read")
          ELSE /\ req' = [req EXCEPT ![r] = [@ EXCEPT !.pc = "login_update", !.old_entry = user]]
               /\ UNCHANGED <<trades, logs, writer, hist>>
    /\ UNCHANGED <<sessions, issued, users, nextOp>>
    /\ raceFrame

\* crud.update_last_login(conn, user["id"]): an UPDATE, which takes the write
\* lock; it changes no column the model holds and matches no row when the
\* row is gone
LoginUpdate(r) ==
    /\ req[r].pc = "login_update"
    /\ writer = 0
    /\ writer' = r
    /\ req' = [req EXCEPT ![r] = [@ EXCEPT !.pc = "login_session"]]
    /\ UNCHANGED <<sessions, issued, users, trades, logs, nextOp, hist>>
    /\ raceFrame

\* token = auth.create_session(user["id"], user["username"], user["role"])
LoginSession(r) ==
    /\ req[r].pc = "login_session"
    /\ \E token \in generate_token :
          LET user == req[r].old_entry.val
          IN /\ issued' = issued \cup {token}
             /\ sessions' = create_session(token, user.id, user.username, user.role)
             /\ req' = [req EXCEPT ![r] = [@ EXCEPT !.pc = "login_commit", !.token = token]]
    /\ UNCHANGED <<users, trades, logs, writer, nextOp, hist>>
    /\ raceFrame

\* return {...}: get_db commits and the handler answers 200 with the token
LoginCommit(r) ==
    /\ req[r].pc = "login_commit"
    /\ commit(r)
    /\ req' = [req EXCEPT ![r] = [Done(req[r], 200, "") EXCEPT !.token = req[r].token]]
    /\ UNCHANGED <<sessions, issued, users, nextOp>>
    /\ raceFrame

\* update_last_login or get_db's commit raises: rollback, and 500.  A session
\* create_session has stored by then stays in the table.
LoginFailure(r) ==
    /\ req[r].pc \in {"login_update", "login_commit"}
    /\ Raise(r, 500, req[r].pc)
    /\ UNCHANGED <<sessions, issued, users, nextOp>>
    /\ raceFrame

\* A delete_user request arrives: auth.verify_admin(authorization)
DeleteUserBegin(r, authorization, user_id) ==
    /\ req[r].pc \in {"idle", "done"}
    /\ nextOp < MaxOps
    /\ nextOp' = nextOp + 1
    /\ LET a == Gate("delete_user", authorization)
           q == [Idle EXCEPT !.kind = "DELETE_USER", !.op = nextOp + 1, !.entry_id = user_id]
       IN req' = [req EXCEPT ![r] =
                    IF a.status # 200 THEN Done(q, a.status, "auth")
                    ELSE [q EXCEPT !.pc = "del_read"]]
    /\ UNCHANGED <<sessions, issued, users, trades, logs, writer, hist>>
    /\ raceFrame

\* A delete_user without the test of the target's role
DeleteUserRead_any_role(r) ==
    /\ req[r].pc = "del_read"
    /\ LET user == get_user_by_id(req[r].entry_id)
       IN IF ~user.found THEN Raise(r, 404, "del_read")
          ELSE /\ req' = [req EXCEPT ![r] =
                            [@ EXCEPT !.pc = "del_sessions", !.old_entry = user,
                                      !.username = user.val.username]]
               /\ UNCHANGED <<trades, logs, writer, hist>>
    /\ UNCHANGED <<sessions, issued, users, nextOp>>
    /\ raceFrame

\* user = crud.get_user_by_id(conn, user_id); 404 when absent, 400 for an admin
DeleteUserRead(r) ==
    /\ req[r].pc = "del_read"
    /\ LET user == get_user_by_id(req[r].entry_id)
       IN IF ~user.found THEN Raise(r, 404, "del_read")
          ELSE IF user.val.role = "admin" THEN Raise(r, 400, "del_read")
          ELSE /\ req' = [req EXCEPT ![r] =
                            [@ EXCEPT !.pc = "del_sessions", !.old_entry = user,
                                      !.username = user.val.username]]
               /\ UNCHANGED <<trades, logs, writer, hist>>
    /\ UNCHANGED <<sessions, issued, users, nextOp>>
    /\ raceFrame

\* auth.delete_user_sessions(user["username"])
DeleteUserSessions(r) ==
    /\ req[r].pc = "del_sessions"
    /\ sessions' = delete_user_sessions(req[r].username).sessions
    /\ req' = [req EXCEPT ![r] = [@ EXCEPT !.pc = "del_row"]]
    /\ UNCHANGED <<issued, users, trades, logs, writer, nextOp, hist>>
    /\ raceFrame

\* success = crud.delete_user(conn, user_id): a DELETE, which takes the write
\* lock; 500 'Failed to delete user' when the row is gone by now
DeleteUserRow(r) ==
    /\ req[r].pc = "del_row"
    /\ writer = 0
    /\ IF req[r].entry_id \notin DOMAIN users
       THEN Raise(r, 500, "del_row")
       ELSE /\ writer' = r
            /\ req' = [req EXCEPT ![r] = [@ EXCEPT !.pc = "del_commit"]]
            /\ UNCHANGED <<trades, logs, hist>>
    /\ UNCHANGED <<sessions, issued, users, nextOp>>
    /\ raceFrame

\* return {...}: get_db commits the DELETE and the handler answers 200
DeleteUserCommit(r) ==
    /\ req[r].pc = "del_commit"
    /\ commit(r)
    /\ users' = [i \in DOMAIN users \ {req[r].entry_id} |-> users[i]]
    /\ req' = [req EXCEPT ![r] = Done(req[r], 200, "")]
    /\ UNCHANGED <<sessions, issued, nextOp>>
    /\ raceFrame

\* crud.delete_user or get_db's commit raises: rollback, and 500
DeleteUserFailure(r) ==
    /\ req[r].pc \in {"del_row", "del_commit"}
    /\ Raise(r, 500, req[r].pc)
    /\ UNCHANGED <<sessions, issued, users, nextOp>>
    /\ raceFrame

\* admin is logged in with token MaxTokens; the other tokens are not issued yet
InitRace ==
    /\ sessions = (MaxTokens :> Session(1, "admin", "admin", 0))
    /\ issued = {MaxTokens}
    /\ now = 0
    /\ users = InitUsers
    /\ trades = << >>
    /\ logs = << >>
    /\ writer = 0
    /\ req = [r \in ReqIds |-> Idle]
    /\ nextOp = 0
    /\ hist = {}
    /\ masters = {}
    /\ resp = NoResponse

NextRace ==
    \/ \E r \in ReqIds, username \in Usernames, password \in Passwords :
          LoginBegin(r, username, password)
    \/ \E r \in ReqIds : LoginRead(r)
    \/ \E r \in ReqIds : LoginUpdate(r)
    \/ \E r \in ReqIds : LoginSession(r)
    \/ \E r \in ReqIds : LoginCommit(r)
    \/ \E r \in ReqIds : LoginFailure(r)
    \/ \E r \in ReqIds, authorization \in {NoHeader, Bearer(MaxTokens)}, user_id \in DOMAIN InitUsers :
          DeleteUserBegin(r, authorization, user_id)
    \/ \E r \in ReqIds : DeleteUserRead(r)
    \/ \E r \in ReqIds : DeleteUserSessions(r)
    \/ \E r \in ReqIds : DeleteUserRow(r)
    \/ \E r \in ReqIds : DeleteUserCommit(r)
    \/ \E r \in ReqIds : DeleteUserFailure(r)
    \/ Logout

SpecRace == InitRace /\ [][NextRace]_vars

----------------------------------------------------------------------------
\* auth.py called directly: the functions of the session table applied to
\* arguments of every kind, starting from the empty table.  args holds the
\* arguments of the call and result what it returned.

UserIds == 1..MaxTokens
Roles == {"admin", "user"}

\* The strings get_session and delete_session are called with
Keys == {<<t>> : t \in Tokens} \cup {<<JUNK>>, << >>}

sessionsFrame == UNCHANGED <<users, trades, logs, writer, req, nextOp, hist, masters>>

Called(op, args, result) ==
    [Response(op, NoHeader, Passed(None)) EXCEPT !.args = args, !.result = result]

\* token = create_session(user_id, username, role)
CreateSession ==
    /\ \E user_id \in UserIds, username \in Usernames, role \in Roles, token \in generate_token :
          /\ issued' = issued \cup {token}
          /\ sessions' = create_session(token, user_id, username, role)
          /\ resp' = Called("create_session", <<user_id, username, role>>, <<token>>)
    /\ UNCHANGED now
    /\ sessionsFrame

\* get_session(token)
GetSession ==
    /\ \E s \in Keys : resp' = Called("get_session", <<s>>, <<get_session(s)>>)
    /\ UNCHANGED <<sessions, issued, now>>
    /\ sessionsFrame

\* delete_session(token)
DeleteSession ==
    /\ \E s \in Keys :
          /\ sessions' = delete_session(s).sessions
          /\ resp' = Called("delete_session", <<s>>, <<delete_session(s).result>>)
    /\ UNCHANGED <<issued, now>>
    /\ sessionsFrame

\* delete_user_sessions(username)
DeleteAllSessionsForUser ==
    /\ \E username \in Usernames \cup {"nobody"} :
          /\ sessions' = delete_user_sessions(username).sessions
          /\ resp' = Called("delete_user_sessions", <<username>>,
                            <<delete_user_sessions(username).result>>)
    /\ UNCHANGED <<issued, now>>
    /\ sessionsFrame

\* verify_token('Bearer ' + token)
VerifyToken ==
    /\ \E t \in Tokens :
          resp' = Response("verify_token", Bearer(t), verify_token(Bearer(t)))
    /\ UNCHANGED <<sessions, issued, now>>
    /\ sessionsFrame

NextSessions ==
    \/ CreateSession
    \/ GetSession
    \/ DeleteSession
    \/ DeleteAllSessionsForUser
    \/ VerifyToken
    \/ Tick

SpecSessions == InitAuth /\ [][NextSessions]_vars

----------------------------------------------------------------------------
\* auth.py called by requests that run at the same time.  The handlers are
\* plain `def` functions, which the server runs on worker threads, and
\* `sessions` is a dict without a lock: a thread may be suspended between two
\* statements and inside a loop.  One step is one operation on the dict.  Of
\* a thread's request record, key is the token argument, at the `now` of
\* cleanup_old_sessions, size the dict's length when its iterator was made,
\* seen the items the iterator has passed, todo what is left of
\* tokens_to_delete and count its length, snap the matching sessions at the
\* start of the call (kept for the properties), result the value returned and
\* failed the exception raised.

threadsFrame == UNCHANGED <<users, trades, logs, writer, hist, masters, resp>>

CanCall(r) == req[r].pc \in {"idle", "done"} /\ nextOp < MaxCalls

NewCall(kind) == [Idle EXCEPT !.kind = kind, !.op = nextOp + 1]

Return(q, result) == [q EXCEPT !.pc = "done", !.result = <<result>>]

RaiseError(q, name) == [q EXCEPT !.pc = "done", !.failed = name]

\* create_session(user_id, username, role), called for one of the accounts
ThreadCreateSession(r) ==
    /\ CanCall(r)
    /\ \E user_id \in DOMAIN InitUsers, token \in generate_token :
          LET user == InitUsers[user_id]
          IN /\ issued' = issued \cup {token}
             /\ sessions' = create_session(token, user.id, user.username, user.role)
             /\ req' = [req EXCEPT ![r] =
                          Return([NewCall("create_session") EXCEPT !.token = token], token)]
    /\ nextOp' = nextOp + 1
    /\ UNCHANGED now
    /\ threadsFrame

\* get_session(token)
ThreadGetSession(r) ==
    /\ CanCall(r)
    /\ \E s \in Keys :
          req' = [req EXCEPT ![r] =
                    Return([NewCall("get_session") EXCEPT !.key = s], get_session(s))]
    /\ nextOp' = nextOp + 1
    /\ UNCHANGED <<sessions, issued, now>>
    /\ threadsFrame

\* delete_session(token): `if token in sessions:`
DeleteSessionTest(r) ==
    /\ CanCall(r)
    /\ \E s \in Keys :
          LET q == [NewCall("delete_session") EXCEPT !.key = s]
          IN req' = [req EXCEPT ![r] =
                       IF IsToken(s) /\ s[1] \in DOMAIN sessions
                       THEN [q EXCEPT !.pc = "ds_del"]
                       ELSE Return(q, FALSE)]
    /\ nextOp' = nextOp + 1
    /\ UNCHANGED <<sessions, issued, now>>
    /\ threadsFrame

\* `del sessions[token]; return True`: KeyError when the key is gone by now
DeleteSessionDel(r) ==
    /\ req[r].pc = "ds_del"
    /\ LET t == req[r].key[1]
       IN IF t \in DOMAIN sessions
          THEN /\ sessions' = [u \in DOMAIN sessions \ {t} |-> sessions[u]]
               /\ req' = [req EXCEPT ![r] = Return(@, TRUE)]
          ELSE /\ sessions' = sessions
               /\ req' = [req EXCEPT ![r] = RaiseError(@, "KeyError")]
    /\ UNCHANGED <<issued, now, nextOp>>
    /\ threadsFrame

\* The condition of the list comprehension of delete_user_sessions and of
\* cleanup_old_sessions, on the session stored under t
Selects(q, t) ==
    IF q.kind = "delete_user_sessions"
    THEN sessions[t].username = q.username
    ELSE q.at - sessions[t].created_at > SESSION_TIMEOUT_HOURS

\* delete_user_sessions(username) and cleanup_old_sessions() begin:
\* `now = datetime.now()` and the iterator of sessions.items() is made
ScanBegin(r) ==
    /\ CanCall(r)
    /\ \E kind \in {"delete_user_sessions", "cleanup_old_sessions"}, username \in Usernames :
          /\ kind = "cleanup_old_sessions" => username = "admin"
          /\ LET q == [NewCall(kind) EXCEPT
                          !.username = IF kind = "delete_user_sessions" THEN username ELSE "",
                          !.at = now, !.pc = "scan",
                          !.size = Cardinality(DOMAIN sessions)]
             IN req' = [req EXCEPT ![r] =
                          [q EXCEPT !.snap = {t \in DOMAIN sessions : Selects(q, t)}]]
    /\ nextOp' = nextOp + 1
    /\ UNCHANGED <<sessions, issued, now>>
    /\ threadsFrame

\* One turn of `for token, session in sessions.items() if ...`: the iterator
\* raises RuntimeError 'dictionary changed size during iteration' when the
\* dict's length is not the one it was made with, ends when it has passed
\* every item, and else yields an item it has not passed
ScanNext(r) ==
    /\ req[r].pc = "scan"
    /\ LET q == req[r]
           rest == DOMAIN sessions \ q.seen
       IN IF Cardinality(DOMAIN sessions) # q.size
          THEN req' = [req EXCEPT ![r] = RaiseError(q, "RuntimeError")]
          ELSE IF rest = {}
          THEN req' = [req EXCEPT ![r] = [q EXCEPT !.pc = "sweep", !.count = Cardinality(q.todo)]]
          ELSE \E t \in rest :
                  req' = [req EXCEPT ![r] =
                            [q EXCEPT !.seen = @ \cup {t},
                                      !.todo = IF Selects(q, t) THEN @ \cup {t} ELSE @]]
    /\ UNCHANGED <<sessions, issued, now, nextOp>>
    /\ threadsFrame

\* One turn of `for token in tokens_to_delete: del sessions[token]`, with
\* KeyError when the key is gone by now, and `return len(tokens_to_delete)`
\* after the last
SweepNext(r) ==
    /\ req[r].pc = "sweep"
    /\ LET q == req[r]
       IN IF q.todo = {}
          THEN /\ req' = [req EXCEPT ![r] = Return(q, q.count)]
               /\ sessions' = sessions
          ELSE \E t \in q.todo :
                  IF t \in DOMAIN sessions
                  THEN /\ sessions' = [u \in DOMAIN sessions \ {t} |-> sessions[u]]
                       /\ req' = [req EXCEPT ![r] = [q EXCEPT !.todo = @ \ {t}]]
                  ELSE /\ sessions' = sessions
                       /\ req' = [req EXCEPT ![r] = RaiseError(q, "KeyError")]
    /\ UNCHANGED <<issued, now, nextOp>>
    /\ threadsFrame

NextThreads ==
    \/ \E r \in ReqIds : ThreadCreateSession(r)
    \/ \E r \in ReqIds : ThreadGetSession(r)
    \/ \E r \in ReqIds : DeleteSessionTest(r)
    \/ \E r \in ReqIds : DeleteSessionDel(r)
    \/ \E r \in ReqIds : ScanBegin(r)
    \/ \E r \in ReqIds : ScanNext(r)
    \/ \E r \in ReqIds : SweepNext(r)
    \/ Tick

SpecThreads == InitAuth /\ [][NextThreads]_vars

----------------------------------------------------------------------------
\* main.py download_logs and get_logs_count: the rows of trader_entries_logs
\* with DATE(changed_at) between two dates given as ISO text.  The clock
\* counts hours; hour 0 is the start of day FirstDay of a month, and a date
\* is the two digits of its day (year and month are the same for all).

FirstDay == 8
LogTimes == {0, 23, 24, 47, 48}
Days == (FirstDay - 1)..(FirstDay + 3)

\* date.isoformat(): the day as zero-padded text
isoformat(d) == <<d \div 10, d % 10>>

\* SQL DATE(changed_at): the date part of the timestamp, as ISO text
DATE(changed_at) == isoformat(FirstDay + changed_at \div 24)

\* SQL a <= b on text: the first differing character decides
RECURSIVE TextLeq(_, _)
TextLeq(a, b) ==
    IF a = <<>> THEN TRUE
    ELSE IF b = <<>> THEN FALSE
    ELSE IF Head(a) # Head(b) THEN Head(a) < Head(b)
    ELSE TextLeq(Tail(a), Tail(b))

\* WHERE DATE(changed_at) >= ? with an upper bound that leaves out to_date
InRange_before_to(l, from_date, to_date) ==
    /\ TextLeq(isoformat(from_date), DATE(l.changed_at))
    /\ TextLeq(DATE(l.changed_at), isoformat(to_date))
    /\ DATE(l.changed_at) # isoformat(to_date)

\* WHERE DATE(changed_at) >= ? AND DATE(changed_at) <= ?
InRange(l, from_date, to_date) ==
    /\ TextLeq(isoformat(from_date), DATE(l.changed_at))
    /\ TextLeq(DATE(l.changed_at), isoformat(to_date))

\* ORDER BY changed_at DESC over the ids in S (rows of one timestamp by id,
\* highest first)
RECURSIVE OrderDesc(_)
OrderDesc(S) ==
    IF S = {} THEN <<>>
    ELSE LET i == CHOOSE i \in S : \A j \in S :
                     \/ logs[j].changed_at < logs[i].changed_at
                     \/ logs[j].changed_at = logs[i].changed_at /\ j <= i
         IN <<i>> \o OrderDesc(S \ {i})

\* The rows the SELECT of download_logs fetches: <<id, row>>, newest first
select_logs(from_date, to_date) ==
    LET ids == OrderDesc({i \in DOMAIN logs : InRange(logs[i], from_date, to_date)})
    IN [k \in DOMAIN ids |-> <<ids[k], logs[ids[k]]>>]

\* SELECT COUNT(*) with the same WHERE
count_logs(from_date, to_date) ==
    Cardinality({i \in DOMAIN logs : InRange(logs[i], from_date, to_date)})

\* download_logs: verify_admin, the query, 404 when it fetched nothing, else
\* one CSV line per row; fails: the storage raises, which becomes 500
download_logs(authorization, from_date, to_date, fails) ==
    LET a == Gate("download_logs", authorization)
        rows == select_logs(from_date, to_date)
        r == IF a.status # 200 THEN a
             ELSE IF fails THEN HTTPException(500, "Error")
             ELSE IF rows = <<>> THEN HTTPException(404, "No logs found")
             ELSE Passed(None)
    IN [Response("download_logs", authorization, r) EXCEPT
           !.args = <<from_date, to_date>>,
           !.result = IF r.status = 200 THEN rows ELSE <<>>]

\* get_logs_count: verify_admin, the count query, and the count in the body
get_logs_count(authorization, from_date, to_date, fails) ==
    LET a == Gate("get_logs_count", authorization)
        r == IF a.status # 200 THEN a
             ELSE IF fails THEN HTTPException(500, "Error")
             ELSE Passed(None)
    IN [Response("get_logs_count", authorization, r) EXCEPT
           !.args = <<from_date, to_date>>,
           !.result = IF r.status = 200 THEN <<count_logs(from_date, to_date)>> ELSE <<>>]

logsFrame ==
    UNCHANGED <<sessions, issued, now, users, trades, logs, writer, req, nextOp, hist, masters>>

LogHeaders == {NoHeader} \cup {Bearer(t) : t \in Tokens}

DownloadLogs ==
    /\ \E authorization \in LogHeaders, from_date \in Days, to_date \in Days, fails \in BOOLEAN :
          resp' = download_logs(authorization, from_date, to_date, fails)
    /\ logsFrame

GetLogsCount ==
    /\ \E authorization \in LogHeaders, from_date \in Days, to_date \in Days, fails \in BOOLEAN :
          resp' = get_logs_count(authorization, from_date, to_date, fails)
    /\ logsFrame

\* The log tables: up to MaxLogs rows written at times that do not decrease
LogTables ==
    {t \in UNION {[1..n -> LogTimes] : n \in 0..MaxLogs} :
        \A i, j \in DOMAIN t : i <= j => t[i] <= t[j]}

InitLogs ==
    /\ sessions = (1 :> Session(2, "alice", "user", 0)) @@ (2 :> Session(1, "admin", "admin", 0))
    /\ issued = {1, 2}
    /\ now = 0
    /\ users = InitUsers
    /\ trades = << >>
    /\ \E t \in LogTables :
          logs = [i \in DOMAIN t |->
                    [create_log_entry(i, 1, "DELETE", "deleted", TradeRow(1, "alice", 1), "alice")
                        EXCEPT !.changed_at = t[i]]]
    /\ writer = 0
    /\ req = [r \in ReqIds |-> Idle]
    /\ nextOp = 0
    /\ hist = {}
    /\ masters = {}
    /\ resp = NoResponse

NextLogs ==
    \/ DownloadLogs
    \/ GetLogsCount

SpecLogs == InitLogs /\ [][NextLogs]_vars

----------------------------------------------------------------------------
\* Properties of the audit trail (SpecAudit)

\* The committed log entries request number op wrote
LogsOf(op) == SelectSeq(logs, LAMBDA l : l.op = op)

\* The entries a step appends to the committed log
Added == SubSeq(logs', Len(logs) + 1, Len(logs'))

IsPrefix(s, t) == Len(s) <= Len(t) /\ SubSeq(t, 1, Len(s)) = s

\* Request r commits its transaction and answers 200 in this step
Commits(r, kind) ==
    /\ req[r].pc = "commit"
    /\ req[r].kind = kind
    /\ req'[r].pc = "done"
    /\ req'[r].status = 200

IsSnapshot(l, entry_id, operation_type, log_tag) ==
    /\ l.entry_id = entry_id
    /\ l.operation_type = operation_type
    /\ l.log_tag = log_tag

\* C1: in every committed storage state the mutations of trade rows and the
\* audit entries match: a committed update has exactly its 'before' and 'after'
\* entries, a committed delete exactly its 'deleted' entry, and every log entry
\* belongs to a request that committed its mutation.
C1_AuditMatchesMutations ==
    /\ \A m \in hist :
         LET ls == LogsOf(m.op)
         IN IF m.kind = "UPDATE"
            THEN /\ Len(ls) = 2
                 /\ IsSnapshot(ls[1], m.entry_id, "UPDATE", "before")
                 /\ IsSnapshot(ls[2], m.entry_id, "UPDATE", "after")
            ELSE /\ Len(ls) = 1
                 /\ IsSnapshot(ls[1], m.entry_id, "DELETE", "deleted")
    /\ \A i \in 1..Len(logs) : \E m \in hist : m.op = logs[i].op

\* A mutation is committed, and another request ended in 404 or 500 after it
\* had written its first snapshot
C1_Witness ==
    /\ hist # {}
    /\ \E r \in ReqIds :
         /\ req[r].pc = "done"
         /\ req[r].status \in {404, 500}
         /\ req[r].failed \in {"mutate", "reread", "log_after", "commit"}

\* C2: when the storage write of the 'after' snapshot fails during an update,
\* the transaction is rolled back (the committed trade rows and log stay as
\* they were, so the row keeps its pre-update values and no 'before' entry of
\* the request is persisted) and the handler answers 500.
C2_AfterSnapshotFailureStep ==
    \A r \in ReqIds :
        (req[r].pc = "log_after" /\ req'[r].pc \notin {"log_after", "commit"}) =>
            /\ req'[r].pc = "done"
            /\ req'[r].status = 500
            /\ trades' = trades
            /\ logs' = logs
            /\ hist' = hist
            /\ writer' = 0

C2_AfterSnapshotFailureLeavesNothing ==
    \A r \in ReqIds :
        (req[r].pc = "done" /\ req[r].failed = "log_after") =>
            /\ req[r].status = 500
            /\ LogsOf(req[r].op) = << >>
            /\ \A m \in hist : m.op # req[r].op

C2_AfterSnapshotFailureRollsBack ==
    [](C2_AfterSnapshotFailureLeavesNothing) /\ [][C2_AfterSnapshotFailureStep]_vars

C2_Witness ==
    \E r \in ReqIds :
        /\ req[r].pc = "done"
        /\ req[r].failed = "log_after"
        /\ req[r].status = 500
        /\ req[r].entry_id \in DOMAIN trades


C4_DeleteAddsDeletedThenRemoves ==
    [][\A r \in ReqIds :
         /\ Commits(r, "DELETE") =>
               /\ Len(Added) = 1
               /\ IsSnapshot(Added[1], req[r].entry_id, "DELETE", "deleted")
               /\ req[r].entry_id \in DOMAIN trades
               /\ req[r].entry_id \notin DOMAIN trades'
         /\ (req[r].kind = "DELETE" /\ req[r].txWrite.kind = "none"
                /\ req'[r].txWrite.kind # "none") =>
               /\ Len(req[r].txLogs) = 1
               /\ IsSnapshot(req[r].txLogs[1], req[r].entry_id, "DELETE", "deleted")]_vars

C4_Witness ==
    \E m \in hist :
        /\ m.kind = "DELETE"
        /\ m.entry_id \notin DOMAIN trades
        /\ Len(LogsOf(m.op)) = 1

\* The row a log entry is a copy of
RowOf(l) == TradeRow(l.entry_id, l.username, l.data)

\* C5: for every committed update the 'before' entry holds the values the row
\* had in the last committed state before the update's mutation, the 'after'
\* entry holds the values the row has when the update commits, and both carry
\* the acting session's username, under every interleaving of requests.
C5_SnapshotsHoldCommittedValues ==
    \A m \in hist :
        m.kind = "UPDATE" =>
            LET ls == LogsOf(m.op)
            IN /\ Len(ls) = 2
               /\ RowOf(ls[1]) = m.old.val
               /\ RowOf(ls[2]) = m.new.val
               /\ ls[1].changed_by = m.by
               /\ ls[2].changed_by = m.by

\* C6: the audit log is append-only: a step never changes or removes a
\* committed entry, and entries are added only by the commit of a trade update
\* or a trade delete.
C6_LogsAppendOnly ==
    [][/\ IsPrefix(logs, logs')
       /\ logs' # logs => \E r \in ReqIds : Commits(r, "UPDATE") \/ Commits(r, "DELETE")]_vars

\* The log holds the entries of two committed requests, and a trade entry has
\* been created since
C6_Witness ==
    /\ Cardinality(hist) = 2
    /\ Len(logs) >= 2
    /\ resp.op = "create_trade_entry"
    /\ resp.status = 201

----------------------------------------------------------------------------
\* Properties of the session table (SpecAuth) and of the handlers' session
\* checks (SpecGate)

Is(r, code, detail) == r.status = code /\ r.detail = detail

\* C7: a token becomes active only by the create_session of a login, and an
\* active token becomes absent only by logout's delete_session of that token,
\* by delete_user's delete_user_sessions of its user, or by
\* cleanup_old_sessions when it is older than the timeout; a session that stays
\* is not changed.  verify_token and verify_admin leave the table as it is and
\* never answer 401 for the token of an active session, whatever its age, and
\* get_session returns every active session.
C7_SessionsChangeOnlyByTheirOperations ==
    [][/\ \A t \in Tokens :
            (t \notin DOMAIN sessions /\ t \in DOMAIN sessions') =>
                /\ resp'.op = "login"
                /\ t \notin issued
                /\ DOMAIN sessions' = DOMAIN sessions \cup {t}
                /\ sessions'[t].created_at = now
       /\ \A t \in DOMAIN sessions :
            t \notin DOMAIN sessions' =>
                \/ /\ Is(resp', 200, "")
                   /\ resp'.op = "logout"
                   /\ replace(resp'.authorization.text) = <<t>>
                   /\ DOMAIN sessions' = DOMAIN sessions \ {t}
                \/ /\ resp'.op = "delete_user"
                   /\ \A u \in DOMAIN sessions :
                        u \in DOMAIN sessions' <=> sessions[u].username # sessions[t].username
                \/ /\ resp'.op = "cleanup_old_sessions"
                   /\ now - sessions[t].created_at > SESSION_TIMEOUT_HOURS
       /\ \A t \in DOMAIN sessions \cap DOMAIN sessions' : sessions'[t] = sessions[t]
       /\ resp'.op \in {"verify_token", "verify_admin"} =>
            /\ sessions' = sessions
            /\ \A t \in DOMAIN sessions :
                 resp'.authorization = Bearer(t) =>
                    /\ resp'.status \in {200, 403}
                    /\ resp'.status = 200 => resp'.session = Some(sessions[t])
       /\ \A t \in DOMAIN sessions : get_session(<<t>>) = Some(sessions[t])]_vars

\* verify_token has returned a session that is older than the timeout
C7_Witness ==
    /\ resp.op = "verify_token"
    /\ resp.status = 200
    /\ resp.session.found
    /\ now - resp.session.val.created_at > SESSION_TIMEOUT_HOURS
    /\ resp.token = 0

\* C8: verify_token answers 401 'Authentication required' for an absent or
\* empty header, else 401 'Invalid authorization header format' for a header
\* that does not start with 'Bearer ', else 401 'Invalid or expired session'
\* when the token after the prefix belongs to no session, as every token that
\* was never issued does; a failed verify_token leaves the session table as it
\* was.
C8_VerifyTokenChecksInOrder ==
    [][resp'.op = "verify_token" =>
         LET h == resp'.authorization
             token == Tail(h.text)
         IN /\ (~h.present \/ h.text = <<>>) =>
                  Is(resp', 401, "Authentication required")
            /\ (h.present /\ h.text # <<>> /\ Head(h.text) # BEARER) =>
                  Is(resp', 401, "Invalid authorization header format")
            /\ (h.present /\ h.text # <<>> /\ Head(h.text) = BEARER) =>
                  /\ ~get_session(token).found =>
                        Is(resp', 401, "Invalid or expired session")
                  /\ ~(IsToken(token) /\ token[1] \in issued) =>
                        Is(resp', 401, "Invalid or expired session")
            /\ resp'.status # 200 => sessions' = sessions]_vars

\* C9: for every header, verify_admin answers what verify_token answers when
\* that is a failure (401, whatever the role), answers 403 'Admin access
\* required' when verify_token returns a session whose role is not 'admin',
\* and returns that session when its role is 'admin'.
C9_VerifyAdminAuthenticatesThenChecksRole ==
    \A h \in Headers :
        LET a == verify_token(h)
            r == verify_admin(h)
        IN /\ a.status # 200 => (r = a /\ r.status = 401)
           /\ (a.status = 200 /\ a.session.val.role # "admin") =>
                 (Is(r, 403, "Admin access required") /\ ~r.session.found)
           /\ (a.status = 200 /\ a.session.val.role = "admin") =>
                 (r.status = 200 /\ r.session = a.session)

\* verify_admin has answered 403 to a user's session while an admin is logged in
C9_Witness ==
    /\ resp.op = "verify_admin"
    /\ resp.status = 403
    /\ \E t \in DOMAIN sessions : sessions[t].role = "admin"
    /\ \E t \in DOMAIN sessions :
          sessions[t].role = "user" /\ resp.authorization = Bearer(t)

\* C10: every protected handler answers 401 when the Authorization header is
\* absent, when it does not start with 'Bearer ', and when its token belongs to
\* no session (unknown or revoked), and every role-gated handler answers 403 to
\* a session whose role is not 'admin'.
C10_ProtectedHandlersAnswer401Or403 ==
    [][resp'.op \in ProtectedHandlers =>
         LET h == resp'.authorization
         IN /\ ~h.present => resp'.status = 401
            /\ (h.present /\ ~startswith(h.text)) => resp'.status = 401
            /\ (h.present /\ startswith(h.text) /\ ~get_session(replace(h.text)).found) =>
                  resp'.status = 401
            /\ ( /\ resp'.op \in AdminHandlers \cup RoleHandlers
                 /\ verify_token(h).status = 200
                 /\ verify_token(h).session.val.role # "admin" ) =>
                  resp'.status = 403]_vars

\* C11: a request that mutates stored data and fails authentication (or, for
\* the admin-only deletion of an account, authorization) changes no stored
\* row, no log entry and no session.
C11_UnauthenticatedRequestsChangeNothing ==
    [][LET failed == IF resp'.op \in AdminHandlers
                     THEN verify_admin(resp'.authorization).status # 200
                     ELSE verify_token(resp'.authorization).status # 200
       IN failed => UNCHANGED <<trades, users, masters, logs, sessions>>]_vars

\* C12: a logout whose header is 'Bearer ' followed by a token that was issued
\* answers 200, whether or not the token's session is still there (so a
\* second logout with the same token succeeds like the first), and the
\* token's session is absent after the call.
C12_LogoutIdempotent ==
    [][\A t \in issued :
         (resp'.op = "logout" /\ resp'.authorization = Bearer(t)) =>
            /\ resp'.status = 200
            /\ t \notin DOMAIN sessions']_vars

\* C13: validate_session and get_session_info always answer 200 and never
\* change the session table; for a missing header, a header that does not
\* start with 'Bearer ', and a header whose token after the prefix belongs to
\* no session (unknown or revoked) they answer valid = false, without username
\* or role.
C13_IntrospectionNeverFails ==
    [][resp'.op \in {"validate_session", "get_session_info"} =>
         LET h == resp'.authorization
         IN /\ resp'.status = 200
            /\ sessions' = sessions
            /\ ( \/ ~h.present
                 \/ ~startswith(h.text)
                 \/ ~get_session(Tail(h.text)).found ) => ~resp'.session.found]_vars

\* C14: delete_user revokes every session of the account's username, and no
\* session of another username, before it deletes the row; when the deletion
\* request succeeds the row is removed and no token issued to that username
\* has a session any more, so each of them fails authentication.
C14_DeletionRevokesSessions ==
    [][\A r \in ReqIds :
         /\ (req[r].pc = "del_sessions" /\ req'[r].pc = "del_row") =>
               \A t \in DOMAIN sessions :
                  IF sessions[t].username = req[r].username
                  THEN t \notin DOMAIN sessions'
                  ELSE t \in DOMAIN sessions' /\ sessions'[t] = sessions[t]
         /\ (req[r].pc = "del_commit" /\ req'[r].pc = "done" /\ req'[r].status = 200) =>
               /\ req[r].entry_id \in DOMAIN users
               /\ req[r].entry_id \notin DOMAIN users'
               /\ \A t \in issued :
                     t \in DOMAIN sessions' => sessions'[t].username # req[r].username]_vars

\* The admin accounts of a users table
Admins(table) == {table[i] : i \in {j \in DOMAIN table : table[j].role = "admin"}}

\* C15: a delete_user request whose target has role 'admin' ends with 400
\* and leaves the user table and the session table unchanged; no step removes
\* or changes an admin account, and the admin accounts that exist initially
\* exist in every state.
C15_AdminTargetStep ==
    /\ Admins(users) \subseteq Admins(users')
    /\ \A r \in ReqIds :
         ( /\ req[r].pc = "del_read"
           /\ req'[r] # req[r]
           /\ req[r].entry_id \in DOMAIN users
           /\ users[req[r].entry_id].role = "admin" ) =>
              /\ req'[r].pc = "done"
              /\ req'[r].status = 400
              /\ users' = users
              /\ sessions' = sessions

C15_AdminAccountsNeverDeleted ==
    [](Admins(InitUsers) \subseteq Admins(users)) /\ [][C15_AdminTargetStep]_vars

\* An admin's request to delete the admin account was answered 400, and the
\* non-admin account has been deleted
C15_Witness ==
    /\ \E r \in ReqIds :
         /\ req[r].pc = "done"
         /\ req[r].kind = "DELETE_USER"
         /\ req[r].entry_id = 1
         /\ req[r].status = 400
    /\ DOMAIN users = {1}

\* The stored accounts whose username and password are exactly these
Matching(username, password) ==
    {i \in DOMAIN users : users[i].username = username /\ users[i].password = password}

\* C16: a login whose username and password equal a stored account's exactly
\* (and whose storage calls succeed) answers 200 with a token and the
\* account's username and role, and adds exactly one session, under that
\* token, with the account's id, username and role; every other login answers
\* 401 'Invalid username or password' without a token and leaves the session
\* table unchanged, whether the username is unknown or the password differs.
C16_LoginMatchesCredentials ==
    [][\A username \in LoginUsernames, password \in LoginPasswords :
         (resp'.op = "login" /\ login(username, password, "none")) =>
            IF Matching(username, password) # {}
            THEN \E i \in Matching(username, password) :
                    /\ resp'.status = 200
                    /\ resp'.token \in Tokens \ DOMAIN sessions
                    /\ resp'.session.found
                    /\ resp'.session.val.username = users[i].username
                    /\ resp'.session.val.role = users[i].role
                    /\ DOMAIN sessions' = DOMAIN sessions \cup {resp'.token}
                    /\ sessions'[resp'.token].user_id = users[i].id
                    /\ sessions'[resp'.token].username = users[i].username
                    /\ sessions'[resp'.token].role = users[i].role
                    /\ \A t \in DOMAIN sessions : sessions'[t] = sessions[t]
            ELSE /\ Is(resp', 401, "Invalid username or password")
                 /\ resp'.token = 0
                 /\ ~resp'.session.found
                 /\ sessions' = sessions]_vars

\* A login has answered 200 with a token while another session was active, and
\* the token's session is that of the user account alice
C16_Witness ==
    /\ resp.op = "login"
    /\ resp.status = 200
    /\ resp.token \in DOMAIN sessions
    /\ sessions[resp.token].username = "alice"
    /\ Cardinality(DOMAIN sessions) = 2

\* C17: after create_session(user_id, username, role) has returned a token,
\* get_session on that token returns a session with exactly that user_id,
\* username and role and a creation time that is not later than the current
\* time, whatever other sessions the table holds.
C17_CreateThenGet ==
    resp.op = "create_session" =>
        LET session == get_session(resp.result)
        IN /\ session.found
           /\ <<session.val.user_id, session.val.username, session.val.role>> = resp.args
           /\ session.val.created_at <= now

\* create_session has returned while another session was in the table, the
\* new session has role 'admin', and time has passed since
C17_Witness ==
    /\ resp.op = "create_session"
    /\ resp.args[3] = "admin"
    /\ Cardinality(DOMAIN sessions) = 2
    /\ \E t \in DOMAIN sessions : <<t>> = resp.result /\ sessions[t].created_at < now

Fields(session) == <<session.user_id, session.username, session.role>>

\* C18: the session a create_session call stores under the token it returns
\* has the user_id, username and role passed to the call; no later step
\* changes them while the token is active; and verify_token on the header
\* 'Bearer ' + token of an active token returns 200 with a session of exactly
\* these fields.
C18_RoundTrip ==
    [][/\ \A t \in Tokens :
            (t \notin DOMAIN sessions /\ t \in DOMAIN sessions') =>
                /\ resp'.op = "create_session"
                /\ resp'.result = <<t>>
                /\ Fields(sessions'[t]) = resp'.args
       /\ \A t \in DOMAIN sessions \cap DOMAIN sessions' :
            Fields(sessions'[t]) = Fields(sessions[t])
       /\ \A t \in DOMAIN sessions :
            (resp'.op = "verify_token" /\ resp'.authorization = Bearer(t)) =>
                /\ resp'.status = 200
                /\ resp'.session.found
                /\ Fields(resp'.session.val) = Fields(sessions[t])]_vars

\* verify_token has returned the session of one token while a session with
\* other fields is active under another token
C18_Witness ==
    /\ resp.op = "verify_token"
    /\ resp.status = 200
    /\ \E t, u \in DOMAIN sessions :
          /\ resp.authorization = Bearer(t)
          /\ Fields(sessions[u]) # Fields(sessions[t])
          /\ resp.session = Some(sessions[t])

\* a step in which a direct call of op returns: the step leaves the call
\* record naming op and is not the passing of time, which keeps an older record
Returns(op) == resp'.op = op /\ now' = now

\* C19: delete_session on an active token returns true and removes that
\* token's session and no other; on a string that is no active token it
\* returns false and leaves the table unchanged; after either call get_session
\* on the string returns absent and a second delete_session on it returns
\* false.
C19_DeleteSessionIdempotent ==
    [][\A s \in Keys :
         (Returns("delete_session") /\ resp'.args = <<s>>) =>
            /\ IF IsToken(s) /\ s[1] \in DOMAIN sessions
               THEN /\ resp'.result = <<TRUE>>
                    /\ DOMAIN sessions' = DOMAIN sessions \ {s[1]}
                    /\ \A u \in DOMAIN sessions' : sessions'[u] = sessions[u]
               ELSE /\ resp'.result = <<FALSE>>
                    /\ sessions' = sessions
            /\ ~(get_session(s).found)'
            /\ ~(delete_session(s).result)'
            /\ (delete_session(s).sessions)' = sessions']_vars

\* delete_session has returned false for a token that was issued and is no
\* longer active, while another token's session is still in the table
C19_Witness ==
    /\ resp.op = "delete_session"
    /\ resp.result = <<FALSE>>
    /\ \E t \in issued : resp.args = << <<t>> >> /\ t \notin DOMAIN sessions
    /\ sessions # << >>

\* C20: delete_user_sessions(username) removes exactly the sessions whose
\* username equals the argument, leaves every other session under the same
\* token with the same value, and returns the number of sessions it removed;
\* when no session has that username it returns 0 and the table is unchanged.
C20_DeleteUserSessionsFrame ==
    [][\A username \in Usernames \cup {"nobody"} :
         (Returns("delete_user_sessions") /\ resp'.args = <<username>>) =>
            LET removed == {t \in DOMAIN sessions : sessions[t].username = username}
            IN /\ DOMAIN sessions' = DOMAIN sessions \ removed
               /\ \A t \in DOMAIN sessions' : sessions'[t] = sessions[t]
               /\ resp'.result = <<Cardinality(DOMAIN sessions) - Cardinality(DOMAIN sessions')>>
               /\ resp'.result = <<Cardinality(removed)>>
               /\ removed = {} => resp'.result = <<0>> /\ sessions' = sessions]_vars

\* delete_user_sessions has removed a session and returned 1 while a session
\* of another username is still in the table
C20_Witness ==
    /\ resp.op = "delete_user_sessions"
    /\ resp.result = <<1>>
    /\ sessions # << >>
    /\ \A t \in DOMAIN sessions : <<sessions[t].username>> # resp.args

\* C21: cleanup_old_sessions removes exactly the sessions older than
\* SESSION_TIMEOUT_HOURS, leaves every other session (one of exactly that age
\* included) as it was, and returns the number removed; a step that is not a
\* cleanup_old_sessions call removes a session only by logout or delete_user,
\* and the passing of time removes none.
C21_SweepRemovesExactlyExpired ==
    [][/\ Returns("cleanup_old_sessions") =>
            LET old == {t \in DOMAIN sessions :
                            now - sessions[t].created_at > SESSION_TIMEOUT_HOURS}
            IN /\ DOMAIN sessions' = DOMAIN sessions \ old
               /\ \A t \in DOMAIN sessions' : sessions'[t] = sessions[t]
               /\ resp'.token = Cardinality(old)
       /\ ~Returns("cleanup_old_sessions") =>
            /\ DOMAIN sessions \ DOMAIN sessions' # {} => resp'.op \in {"logout", "delete_user"}
            /\ now' # now => sessions' = sessions]_vars

\* cleanup_old_sessions has removed a session and returned 1 while a session
\* of exactly SESSION_TIMEOUT_HOURS is still in the table
C21_Witness ==
    /\ resp.op = "cleanup_old_sessions"
    /\ resp.token = 1
    /\ \E t \in DOMAIN sessions : now - sessions[t].created_at = SESSION_TIMEOUT_HOURS

\* C23: create_session, get_session and delete_session calls of requests
\* that run at the same time behave as in some order one after another: none
\* of them raises, and of two delete_session calls on the same token at most
\* one returns true (a token is created once), the other returning false.
C23_SessionOperationsLinearizable ==
    /\ \A r \in ReqIds :
          (req[r].kind \in {"create_session", "get_session", "delete_session"}
              /\ req[r].pc = "done") =>
             /\ req[r].failed = ""
             /\ req[r].result # <<>>
    /\ \A r, q \in ReqIds :
          (r # q /\ req[r].kind = "delete_session" /\ req[q].kind = "delete_session"
                /\ req[r].pc = "done" /\ req[q].pc = "done" /\ req[r].key = req[q].key) =>
             ~(req[r].result = <<TRUE>> /\ req[q].result = <<TRUE>>)

\* C24: a delete_user_sessions or cleanup_old_sessions call that runs while
\* other requests create and delete sessions returns without raising, none of
\* the sessions that matched when it started is in the table when it returns,
\* and each of its steps removes only sessions that match.
C24_ScansSurviveConcurrentWrites ==
    [][\A r \in ReqIds :
         req'[r].kind \in {"delete_user_sessions", "cleanup_old_sessions"} =>
            /\ req'[r].pc = "done" =>
                  /\ req'[r].failed = ""
                  /\ req'[r].snap \cap DOMAIN sessions' = {}
            /\ (req[r].pc = "sweep" /\ req'[r] # req[r]) =>
                  \A t \in DOMAIN sessions \ DOMAIN sessions' : Selects(req[r], t)]_vars

\* the calendar day of a log row
DayOf(l) == FirstDay + l.changed_at \div 24

\* the ids of the log rows whose day lies in from_date..to_date, both included
Included(from_date, to_date) ==
    {i \in DOMAIN logs : from_date <= DayOf(logs[i]) /\ DayOf(logs[i]) <= to_date}

\* C25: download_logs emits, once each, exactly the log rows with
\* from_date <= date(changed_at) <= to_date (none: it answers 404, never an
\* empty 200), so with from_date = to_date only rows of that day; and
\* get_logs_count returns the number of those rows for the same bounds.
C25_LogRangeInclusive ==
    LET from_date == resp.args[1]
        to_date == resp.args[2]
    IN /\ (resp.op = "download_logs" /\ resp.status = 200) =>
             /\ {resp.result[k][1] : k \in DOMAIN resp.result} = Included(from_date, to_date)
             /\ Len(resp.result) = Cardinality(Included(from_date, to_date))
             /\ \A k \in DOMAIN resp.result : resp.result[k][2] = logs[resp.result[k][1]]
             /\ resp.result # <<>>
       /\ (resp.op = "download_logs" /\ resp.status = 404) =>
             Included(from_date, to_date) = {}
       /\ (resp.op = "get_logs_count" /\ resp.status = 200) =>
             resp.result = <<Cardinality(Included(from_date, to_date))>>

\* download_logs was asked for one day and has emitted the one row of that
\* day, while the table also holds a row of the day before and one of the
\* day after
C25_Witness ==
    /\ resp.op = "download_logs"
    /\ resp.status = 200
    /\ resp.args[1] = resp.args[2]
    /\ Len(resp.result) = 1
    /\ \E i, j \in DOMAIN logs :
          /\ DayOf(logs[i]) = resp.args[1] - 1
          /\ DayOf(logs[j]) = resp.args[1] + 1

\* C26: in every state reached by interleaved login, logout and delete_user
\* requests, every active session has the username of an account that exists:
\* once a delete_user has removed an account no session of its username is
\* active, whatever a login running at the same time was doing.
C26_NoSessionOfDeletedAccount ==
    \A t \in DOMAIN sessions :
       \E i \in DOMAIN users : users[i].username = sessions[t].username

\* C27: verify_token returns a session, and get_session_info answers
\* valid = true, only for a header that is 'Bearer ' followed by the token of
\* an active session and nothing else; for every other header verify_token
\* answers 401.
C27_OnlyExactBearerHeadersAuthenticate ==
    [][/\ (resp'.op = "verify_token" /\ resp'.status = 200) =>
            \E t \in DOMAIN sessions : resp'.authorization = Bearer(t)
       /\ (resp'.op = "verify_token" /\ resp'.status # 200) => resp'.status = 401
       /\ (resp'.op = "get_session_info" /\ resp'.session.found) =>
            \E t \in DOMAIN sessions : resp'.authorization = Bearer(t)]_vars

\* C28: a login that does not answer 200 (unknown user, wrong password, or a
\* storage call that raises, the commit of get_db included) leaves the session
\* table as it was.
C28_FailedLoginLeavesSessions ==
    [][(resp'.op = "login" /\ resp'.status # 200) => sessions' = sessions]_vars

\* The delete_trade_entry requests for entry e that have answered, the failed
\* session check apart
Deletes(e) ==
    {r \in ReqIds : /\ req[r].kind = "DELETE" /\ req[r].entry_id = e
                    /\ req[r].pc = "done" /\ req[r].failed # "auth"}

\* Request r met a storage error that is not the wait for the other
\* connection's write lock running out
Faulted(r) == req[r].status = 500 /\ req[r].failed # "locked"

\* C29: of two delete_trade_entry requests for one entry, the only requests
\* so far, at most one answers
\* 200, and the log holds the snapshots of requests that answered 200 only;
\* when the entry existed and no storage call raised except for the wait for
\* the other's write lock, exactly one answers 200 and the other 404 or 500,
\* the row is gone, and the log holds exactly one entry, the winner's
\* 'deleted' snapshot of that row.
C29_ConcurrentDeletesOneWins ==
    \A e \in EntryIds :
       LET won == {r \in Deletes(e) : req[r].status = 200}
       IN (Cardinality(Deletes(e)) = 2 /\ nextOp = 2) =>
             /\ Cardinality(won) <= 1
             /\ \A i \in DOMAIN logs : \E r \in won : logs[i].op = req[r].op
             /\ ((e \in DOMAIN trades \/ hist # {}) /\ \A r \in Deletes(e) : ~Faulted(r)) =>
                   /\ Cardinality(won) = 1
                   /\ \A r \in Deletes(e) \ won : req[r].status \in {404, 500}
                   /\ e \notin DOMAIN trades
                   /\ Len(logs) = 1
                   /\ logs[1].entry_id = e
                   /\ logs[1].log_tag = "deleted"
                   /\ logs[1].operation_type = "DELETE"

\* Two deletes of one entry ran at the same time: one has answered 200, the
\* other had read the row before that and was answered 404 by its DELETE
C29_Witness ==
    \E r, q \in ReqIds :
       /\ r # q
       /\ Deletes(1) = {r, q}
       /\ req[r].status = 200
       /\ req[q].status = 404
       /\ req[q].failed = "mutate"
       /\ Len(logs) = 1

\* The ids of the entries get_trade_entries_by_date answers the session of
\* token t with for date d
Listed(t, d) ==
    LET entries == get_trade_entries_by_date(Bearer(t), d).result
    IN {entries[k].id : k \in DOMAIN entries}

\* C30: an update by a session is never refused because of the row's owner;
\* when it commits, the row's username is the session's, the 'before'
\* snapshot holds the username the row had until then and the 'after'
\* snapshot the session's, and from then on the entry is in the by-date
\* listing of that session and of an admin under the row's new date and under
\* no other, and in the listing of no other user.
C30_UpdateTransfersOwnership ==
    [][\A r \in ReqIds :
         /\ (req'[r].kind = "UPDATE" /\ req'[r].pc = "done") =>
               req'[r].status \in {200, 401, 404, 500}
         /\ Commits(r, "UPDATE") =>
               LET e == req[r].entry_id
                   U == req[r].username
               IN /\ trades'[e].username = U
                  /\ Added[1].username = trades[e].username
                  /\ Added[2].username = U
                  /\ \A t \in Tokens, d \in Data :
                        t \in DOMAIN sessions =>
                           ((e \in Listed(t, d)') <=>
                               /\ d = req[r].entry
                               /\ sessions[t].username = U \/ sessions[t].role = "admin")]_vars

====
